---- MODULE Spec2Model ----
(***************************************************************************)
(* set_grid_intervals of scripts/districts.py as a state machine.          *)
(*                                                                         *)
(* Number representation.  The function works on IEEE doubles; the model   *)
(* works on integers:                                                      *)
(*   - an interval (degrees) is an integer count of microdegrees (1e-6     *)
(*     degree): 0.001 is 1000, 0.0011 is 1100, 0.00275 is 2750;            *)
(*   - a polygon area is an integer count of square metres;                *)
(*   - a dimensionless real (hectares, area ** b) is a fixed-point integer *)
(*     with PScale units per 1.0;                                          *)
(*   - the exponent b is n / 2^BBits for an integer n (a dyadic grid), so  *)
(*     that area ** b is computed exactly as the code's power, by repeated *)
(*     square roots, and is never replaced by a table;                     *)
(*   - a double is a record [cls, v]: cls is "num" (value v), "nan" or     *)
(*     "inf" (+infinity), because a negative area makes numpy's power      *)
(*     return nan and a zero area with a negative exponent makes it return *)
(*     inf, and Python's min and max then behave by their comparison rule. *)
(***************************************************************************)
EXTENDS Integers, Sequences, FiniteSets, TLC

\* ------------------------------------------------------------- bounds
\* Fixed-point units per 1.0 for hectares and powers.
PScale == 4096
\* The exponent grid is n / 2^BBits.
BBits == 6
\* The fit searches k in 0..KMax microdegrees.
KMax == 3000
\* Input areas: multiples of AreaStep square metres up to MaxAreaSteps of them.
AreaStep == 250
MaxAreaSteps == 8
\* Calls of set_grid_intervals in one run.
MaxCalls == 2

\* ------------------------------------------------ constants of the code
lower_limit == 1000
upper_limit == 1100
target_interval == 1000
\* adjustment_factor = 0.85, in hundredths.
adjustment_factor == 85
\* Square metres per hectare (polygon_area / 10000).
SqmPerHa == 10000

\* Known data for fitting: areas in hectares (fixed point), intervals in
\* microdegrees.  0.1, 1.0, 4.5, 9.5, 35.0 ha are 1000, 10000, 45000, 95000,
\* 350000 square metres.
Round(num, den) == (num + den \div 2) \div den
areas == << Round(PScale, 10), PScale, Round(45 * PScale, 10),
            Round(95 * PScale, 10), 35 * PScale >>
intervals == << 1500, 1000, 1000, 2750, 2250 >>

\* ------------------------------------------------------------ doubles
Num(v) == [cls |-> "num", v |-> v]
NaN == [cls |-> "nan", v |-> 0]
Inf == [cls |-> "inf", v |-> 0]
IsNum(x) == x.cls = "num"

\* x < y on doubles: false whenever either side is nan.
FLess(x, y) ==
    /\ x.cls # "nan"
    /\ y.cls # "nan"
    /\ \/ x.cls = "num" /\ y.cls = "inf"
       \/ x.cls = "num" /\ y.cls = "num" /\ x.v < y.v

\* Python's min(p, q) and max(p, q): the first argument is kept unless the
\* second compares strictly smaller (larger).
PyMin(p, q) == IF FLess(q, p) THEN q ELSE p
PyMax(p, q) == IF FLess(p, q) THEN q ELSE p

\* ------------------------------------------------------- fixed point
MulFx(p, q) == Round(p * q, PScale)

\* The largest r with r * r <= n, bit by bit from 2^15 down (46340 is the
\* largest r whose square is a 32-bit integer).
ISqrt(n) ==
    LET r[i \in 0..16] ==
            IF i = 0 THEN 0
            ELSE LET prev == r[i - 1]
                     t == prev + 2 ^ (16 - i)
                 IN IF t <= 46340 /\ t * t <= n THEN t ELSE prev
    IN r[16]

\* sqrt of a fixed-point x, rounded to the nearest unit.
SqrtFx(x) ==
    LET n == x * PScale
        r == ISqrt(n)
    IN IF n - r * r > r THEN r + 1 ELSE r

\* x ** (n / 2^BBits) for 0 <= n < 2^BBits: the product of the roots
\* x ** (1 / 2^i) for the binary digits of n that are set.
PowFx(x, n) ==
    LET root[i \in 0..BBits] == IF i = 0 THEN x ELSE SqrtFx(root[i - 1])
        prod[i \in 0..BBits] ==
            IF i = 0 THEN PScale
            ELSE LET rest == prod[i - 1]
                 IN IF (n \div 2 ^ (BBits - i)) % 2 = 1
                    THEN MulFx(root[i], rest)
                    ELSE rest
    IN prod[BBits]

\* area ** b as numpy computes it for a double base and the double exponent
\* b = n / 2^BBits: 1 for b = 0, nan for a negative base (b is never a
\* non-zero integer on the grid searched), 0 or inf for a zero base.
Power(x, n) ==
    IF n = 0 THEN Num(PScale)
    ELSE IF x < 0 THEN NaN
    ELSE IF x = 0 THEN (IF n > 0 THEN Num(0) ELSE Inf)
    ELSE IF n > 0 THEN Num(PowFx(x, n))
    ELSE LET p == PowFx(x, 0 - n)
         IN IF p = 0 THEN Inf ELSE Num(Round(PScale * PScale, p))

\* kk * p for a double p and a finite kk in microdegrees.
Times(kk, p) ==
    CASE p.cls = "nan" -> NaN
      [] p.cls = "inf" -> (IF kk = 0 THEN NaN ELSE Inf)
      [] OTHER -> Num(Round(kk * p.v, PScale))

\* power_law with the exponent's sign lost: k * (area ** -b).
power_law_neg(area, kk, n) == Times(kk, Power(area, 0 - n))

\* power_law(area, k, b) = k * (area ** b): kk is k in microdegrees, n the
\* exponent b = n / 2^BBits.
power_law(area, kk, n) == Times(kk, Power(area, n))

\* ---------------------------------------------------------- curve_fit
\* The exponents searched: b in [-1/2, 1/2].
BHalf == 2 ^ (BBits - 1)
BIndex == (0 - BHalf) .. BHalf

\* areas ** b, the part of power_law(areas, k, b) that does not depend on k
\* (the calibration areas are positive, so every entry is a number).
AreasPow(n) ==
    << Power(areas[1], n).v, Power(areas[2], n).v, Power(areas[3], n).v,
       Power(areas[4], n).v, Power(areas[5], n).v >>

\* Sum of squared residuals power_law(areas, k, b) - intervals for k = kk,
\* given pw = areas ** b.
SumSq(pw, kk) ==
    LET r1 == Round(kk * pw[1], PScale) - intervals[1]
        r2 == Round(kk * pw[2], PScale) - intervals[2]
        r3 == Round(kk * pw[3], PScale) - intervals[3]
        r4 == Round(kk * pw[4], PScale) - intervals[4]
        r5 == Round(kk * pw[5], PScale) - intervals[5]
    IN r1 * r1 + r2 * r2 + r3 * r3 + r4 * r4 + r5 * r5

\* The least-squares candidate <<sum of squares, k, n>> for the exponent n
\* over k in 0..KMax (the smallest k on a tie), by halving the range.
BestK(pw, n) ==
    LET best[r \in (0..KMax) \X (0..KMax)] ==
            IF r[1] = r[2] THEN << SumSq(pw, r[1]), r[1], n >>
            ELSE LET mid == (r[1] + r[2]) \div 2
                     c == best[<< r[1], mid >>]
                     d == best[<< mid + 1, r[2] >>]
                 IN IF d[1] < c[1] THEN d ELSE c
    IN best[<< 0, KMax >>]

\* The least-squares candidate over every exponent searched and every k.
LeastSquares ==
    LET best[r \in BIndex \X BIndex] ==
            IF r[1] = r[2] THEN LET pw == AreasPow(r[1]) IN BestK(pw, r[1])
            ELSE LET mid == (r[1] + r[2]) \div 2
                     c == best[<< r[1], mid >>]
                     d == best[<< mid + 1, r[2] >>]
                 IN IF d[1] < c[1] THEN d ELSE c
    IN best[<< 0 - BHalf, BHalf >>]

\* curve_fit(power_law, areas, intervals) when it converges: the parameters
\* that minimise the sum of squared residuals.
popt == [k |-> LeastSquares[2], n |-> LeastSquares[3]]

\* ------------------------------------------------------ the function
\* The areas set_grid_intervals is called with, in square metres: a negative
\* one, zero, a ladder of small ones and the five calibration areas.
CalibrationSqm == {1000, 10000, 45000, 95000, 350000}
AreaInputs ==
    {0 - AreaStep, 0} \cup {AreaStep * i : i \in 1..MaxAreaSteps}
        \cup CalibrationSqm

\* A local that holds nothing (the frame does not exist, or the line that
\* assigns it has not run).
Unset == [cls |-> "unset", v |-> 0]

\* polygon_area // 10000: the division done on whole numbers.
HaOfSqmFloor(sqm) == (sqm \div SqmPerHa) * PScale

\* polygon_area / 10000 as a fixed-point number of hectares.
HaOfSqm(sqm) ==
    (sqm \div SqmPerHa) * PScale + Round((sqm % SqmPerHa) * PScale, SqmPerHa)

\* The blend with its two weights exchanged.
AdjustedSwapped(v) ==
    IF IsNum(v)
    THEN Num(Round((100 - adjustment_factor) * v.v
                   + adjustment_factor * target_interval, 100))
    ELSE v

\* adjustment_factor * v + (1 - adjustment_factor) * target_interval
Adjusted(v) ==
    IF IsNum(v)
    THEN Num(Round(adjustment_factor * v.v
                   + (100 - adjustment_factor) * target_interval, 100))
    ELSE v

\* The clamp without its upper limit: max(lower_limit, v).
ClampedNoUpper(v) == PyMax(Num(lower_limit), v)

\* max(lower_limit, min(v, upper_limit))
Clamped(v) == PyMax(Num(lower_limit), PyMin(v, Num(upper_limit)))

VARIABLES
    pc,               \* the line set_grid_intervals is at, "idle" between calls
    polygon_area,     \* the argument, square metres
    polygon_area_ha,  \* fixed-point hectares
    k, b,             \* params of the fit: microdegrees, exponent index n
    new_interval_x,
    new_interval_y,
    converges,        \* whether the solver converges on the table within maxfev
    calls             \* what each finished call gave its caller, oldest first

vars == << pc, polygon_area, polygon_area_ha, k, b, new_interval_x,
           new_interval_y, converges, calls >>

\* The state of the other parts of the repository, which set_grid_intervals
\* neither reads nor writes.
VARIABLES
    frames,           \* concurrent calls of set_grid_intervals: one frame a thread
    layers,           \* project.mapLayers().values(), in iteration order
    next_id,          \* the id the next constructed layer gets
    loading,          \* the load function that is between its two project calls
    last_call,        \* the last finished call on the layer registry
    area_call,        \* the last call of calculate_area_and_centroid
    layouts,          \* project.layoutManager(): its layouts, oldest first
    next_layout,      \* the id the next constructed layout gets
    layout_call,      \* the layout function in progress or last finished
    scale_bar_bound,  \* whether the running namespace binds QgsLayoutItemScaleBar
    demo              \* the frame of main_demo

layerVars == << layers, next_id, loading, last_call >>
areaVars == << area_call >>
layoutVars == << layouts, next_layout, layout_call, scale_bar_bound >>
demoVars == << demo >>
outside == << frames, layerVars, areaVars, layoutVars, demoVars >>
notThreads == << layerVars, areaVars, layoutVars, demoVars >>
notLayers == << frames, areaVars, layoutVars, demoVars >>
notArea == << frames, layerVars, layoutVars, demoVars >>
notLayouts == << frames, layerVars, areaVars, demoVars >>
\* (the layout functions read layers and leave them as they are)
notDemo == << frames, loading, last_call, areaVars, layout_call,
              scale_bar_bound >>

\* The other parts at rest.
ThreadsIdle == frames = << >>
LayersIdle ==
    /\ layers = << >>
    /\ next_id = 1
    /\ loading = << >>
    /\ last_call = << >>
AreaIdle == area_call = << >>
LayoutsIdle ==
    /\ layouts = << >>
    /\ next_layout = 1
    /\ layout_call = << >>
    /\ scale_bar_bound = FALSE
DemoIdle == demo = << >>
OutsideIdle ==
    /\ ThreadsIdle
    /\ LayersIdle
    /\ AreaIdle
    /\ LayoutsIdle
    /\ DemoIdle

\* No frame: every local is gone.
NoFrame ==
    /\ polygon_area' = 0
    /\ polygon_area_ha' = 0
    /\ k' = 0
    /\ b' = 0
    /\ new_interval_x' = Unset
    /\ new_interval_y' = Unset

\* No call of set_grid_intervals on the one-call-at-a-time stack.
GridIdle ==
    /\ pc = "idle"
    /\ polygon_area = 0
    /\ polygon_area_ha = 0
    /\ k = 0
    /\ b = 0
    /\ new_interval_x = Unset
    /\ new_interval_y = Unset
    /\ calls = << >>

Init ==
    /\ pc = "idle"
    /\ polygon_area = 0
    /\ polygon_area_ha = 0
    /\ k = 0
    /\ b = 0
    /\ new_interval_x = Unset
    /\ new_interval_y = Unset
    /\ converges \in BOOLEAN
    /\ calls = << >>
    /\ OutsideIdle

\* set_grid_intervals with a guard that rejects a non-positive area.
CallValidated(area) ==
    /\ pc = "idle"
    /\ Len(calls) < MaxCalls
    /\ IF area <= 0
       THEN /\ calls' = Append(calls, [area |-> area,
                                       outcome |-> "InvalidArgument",
                                       x |-> Unset, y |-> Unset])
            /\ UNCHANGED << pc, polygon_area, polygon_area_ha, k, b,
                            new_interval_x, new_interval_y, converges >>
       ELSE /\ polygon_area' = area
            /\ pc' = "convert"
            /\ UNCHANGED << polygon_area_ha, k, b, new_interval_x,
                            new_interval_y, converges, calls >>
    /\ UNCHANGED outside

\* def set_grid_intervals(polygon_area): there is no check of the argument.
Call(area) ==
    /\ pc = "idle"
    /\ Len(calls) < MaxCalls
    /\ polygon_area' = area
    /\ pc' = "convert"
    /\ UNCHANGED << polygon_area_ha, k, b, new_interval_x, new_interval_y,
                    converges, calls >>
    /\ UNCHANGED outside

\* polygon_area_ha = polygon_area / 10000
Convert ==
    /\ pc = "convert"
    /\ polygon_area_ha' = HaOfSqm(polygon_area)
    /\ pc' = "fit"
    /\ UNCHANGED << polygon_area, k, b, new_interval_x, new_interval_y,
                    converges, calls >>
    /\ UNCHANGED outside

\* params, _ = curve_fit(power_law, areas, intervals, maxfev=20000); k, b = params
FitConverges ==
    /\ pc = "fit"
    /\ converges
    /\ k' = popt.k
    /\ b' = popt.n
    /\ pc' = "eval_x"
    /\ UNCHANGED << polygon_area, polygon_area_ha, new_interval_x,
                    new_interval_y, converges, calls >>
    /\ UNCHANGED outside

\* The failed fit caught and a default interval returned in its place.
FitFallsBack ==
    /\ pc = "fit"
    /\ ~converges
    /\ calls' = Append(calls, [area |-> polygon_area, outcome |-> "returned",
                               x |-> Num(target_interval),
                               y |-> Num(target_interval)])
    /\ pc' = "idle"
    /\ NoFrame
    /\ UNCHANGED converges
    /\ UNCHANGED outside

\* curve_fit raises RuntimeError when the solver stops at maxfev; nothing in
\* set_grid_intervals catches it, so the call ends there and the caller gets
\* the error.
FitRaises ==
    /\ pc = "fit"
    /\ ~converges
    /\ calls' = Append(calls, [area |-> polygon_area, outcome |-> "RuntimeError",
                               x |-> Unset, y |-> Unset])
    /\ pc' = "idle"
    /\ NoFrame
    /\ UNCHANGED converges
    /\ UNCHANGED outside

\* new_interval_x = power_law(polygon_area_ha, k, b)
EvaluateX ==
    /\ pc = "eval_x"
    /\ new_interval_x' = power_law(polygon_area_ha, k, b)
    /\ pc' = "eval_y"
    /\ UNCHANGED << polygon_area, polygon_area_ha, k, b, new_interval_y,
                    converges, calls >>
    /\ UNCHANGED outside

\* new_interval_y = power_law(polygon_area_ha, k, b)
EvaluateY ==
    /\ pc = "eval_y"
    /\ new_interval_y' = power_law(polygon_area_ha, k, b)
    /\ pc' = "adjust_x"
    /\ UNCHANGED << polygon_area, polygon_area_ha, k, b, new_interval_x,
                    converges, calls >>
    /\ UNCHANGED outside

\* The x blend with a target that is kept between calls and follows the last
\* returned interval.
AdjustXDrifting ==
    /\ pc = "adjust_x"
    /\ new_interval_x' =
           IF IsNum(new_interval_x)
           THEN Num(Round(adjustment_factor * new_interval_x.v
                          + (100 - adjustment_factor)
                              * (IF calls = << >> THEN target_interval
                                 ELSE calls[Len(calls)].x.v), 100))
           ELSE new_interval_x
    /\ pc' = "adjust_y"
    /\ UNCHANGED << polygon_area, polygon_area_ha, k, b, new_interval_y,
                    converges, calls >>
    /\ UNCHANGED outside

\* new_interval_x = adjustment_factor * new_interval_x + (1 - adjustment_factor) * target_interval
AdjustX ==
    /\ pc = "adjust_x"
    /\ new_interval_x' = Adjusted(new_interval_x)
    /\ pc' = "adjust_y"
    /\ UNCHANGED << polygon_area, polygon_area_ha, k, b, new_interval_y,
                    converges, calls >>
    /\ UNCHANGED outside

\* The y blend computed from new_interval_x (already blended) by a copied line.
AdjustYFromX ==
    /\ pc = "adjust_y"
    /\ new_interval_y' = Adjusted(new_interval_x)
    /\ pc' = "clamp_x"
    /\ UNCHANGED << polygon_area, polygon_area_ha, k, b, new_interval_x,
                    converges, calls >>
    /\ UNCHANGED outside

\* new_interval_y = adjustment_factor * new_interval_y + (1 - adjustment_factor) * target_interval
AdjustY ==
    /\ pc = "adjust_y"
    /\ new_interval_y' = Adjusted(new_interval_y)
    /\ pc' = "clamp_x"
    /\ UNCHANGED << polygon_area, polygon_area_ha, k, b, new_interval_x,
                    converges, calls >>
    /\ UNCHANGED outside

\* The x clamp left out.
ClampXSkipped ==
    /\ pc = "clamp_x"
    /\ pc' = "clamp_y"
    /\ UNCHANGED << polygon_area, polygon_area_ha, k, b, new_interval_x,
                    new_interval_y, converges, calls >>
    /\ UNCHANGED outside

\* new_interval_x = max(lower_limit, min(new_interval_x, upper_limit))
ClampX ==
    /\ pc = "clamp_x"
    /\ new_interval_x' = Clamped(new_interval_x)
    /\ pc' = "clamp_y"
    /\ UNCHANGED << polygon_area, polygon_area_ha, k, b, new_interval_y,
                    converges, calls >>
    /\ UNCHANGED outside

\* The y clamp left out.
ClampYSkipped ==
    /\ pc = "clamp_y"
    /\ pc' = "return"
    /\ UNCHANGED << polygon_area, polygon_area_ha, k, b, new_interval_x,
                    new_interval_y, converges, calls >>
    /\ UNCHANGED outside

\* new_interval_y = max(lower_limit, min(new_interval_y, upper_limit))
ClampY ==
    /\ pc = "clamp_y"
    /\ new_interval_y' = Clamped(new_interval_y)
    /\ pc' = "return"
    /\ UNCHANGED << polygon_area, polygon_area_ha, k, b, new_interval_x,
                    converges, calls >>
    /\ UNCHANGED outside

\* return new_interval_x, new_interval_y
Return ==
    /\ pc = "return"
    /\ calls' = Append(calls, [area |-> polygon_area, outcome |-> "returned",
                               x |-> new_interval_x, y |-> new_interval_y])
    /\ pc' = "idle"
    /\ NoFrame
    /\ UNCHANGED converges
    /\ UNCHANGED outside

Next ==
    \/ \E area \in AreaInputs : Call(area)
    \/ Convert
    \/ FitConverges
    \/ FitRaises
    \/ EvaluateX
    \/ EvaluateY
    \/ AdjustX
    \/ AdjustY
    \/ ClampX
    \/ ClampY
    \/ Return

Spec == Init /\ [][Next]_vars

\* ------------------------------------------------------------- claims
Abs(i) == IF i < 0 THEN 0 - i ELSE i
Finished == DOMAIN calls
Returned(i) == calls[i].outcome = "returned"

\* The raw fitted value for an area: k * (area / 10000) ** b with the fitted
\* (k, b), written from the claim's formula.
RawOf(area) == power_law(Round(area * PScale, 10000), popt.k, popt.n)

\* The claims' reference result: 0.85 * raw + 0.15 * 0.001, then
\* max(0.001, min(blended, 0.0011)), in microdegrees.
BlendOf(raw) ==
    IF IsNum(raw) THEN Num(Round(85 * raw.v + 15 * 1000, 100)) ELSE raw
ReferenceOf(area) == PyMax(Num(1000), PyMin(BlendOf(RawOf(area)), Num(1100)))

\* C1: both values of every pair set_grid_intervals returns are numbers in
\* the closed range [0.001, 0.0011] degrees, whatever the raw fitted value.
C1_IntervalsInRange ==
    \A i \in Finished :
        Returned(i) =>
            /\ IsNum(calls[i].x) /\ calls[i].x.v >= 1000 /\ calls[i].x.v <= 1100
            /\ IsNum(calls[i].y) /\ calls[i].y.v >= 1000 /\ calls[i].y.v <= 1100

\* C1 witness: one call returned for a raw value below half the lower limit,
\* another for a raw value above twice the upper limit.
C1_Witness ==
    \E i, j \in Finished :
        /\ Returned(i) /\ IsNum(RawOf(calls[i].area))
        /\ RawOf(calls[i].area).v < 500
        /\ Returned(j) /\ IsNum(RawOf(calls[j].area))
        /\ RawOf(calls[j].area).v > 2200

\* C2: the x-interval and the y-interval of every returned pair are equal.
C2_AxesEqual ==
    \A i \in Finished : Returned(i) => calls[i].x = calls[i].y

\* C2 witness: a returned pair that no clamp limit decided.
C2_Witness ==
    \E i \in Finished :
        /\ Returned(i)
        /\ calls[i].x.v > 1000 /\ calls[i].x.v < 1100
        /\ calls[i].y.v > 1000 /\ calls[i].y.v < 1100

\* C3: every returned pair is the reference result for its area, on both
\* axes: max(0.001, min(0.85 * k * (A / 10000) ** b + 0.15 * 0.001, 0.0011)).
C3_MatchesReference ==
    \A i \in Finished :
        Returned(i) =>
            /\ calls[i].x = ReferenceOf(calls[i].area)
            /\ calls[i].y = ReferenceOf(calls[i].area)

\* C3 witness: returned pairs for an area the lower limit decides, an area
\* no limit decides and an area the upper limit decides were all seen (two
\* of them in one run).
C3_Witness ==
    \E i, j \in Finished :
        /\ Returned(i) /\ calls[i].x.v > 1000 /\ calls[i].x.v < 1100
        /\ Returned(j) /\ BlendOf(RawOf(calls[j].area)).v > 1100
        /\ calls[j].x.v = 1100

\* C4: two finished calls with the same area gave their callers the same
\* thing, whatever was called before either of them.
C4_SameAreaSameResult ==
    \A i, j \in Finished :
        calls[i].area = calls[j].area => calls[i] = calls[j]

\* C4 witness: the same area was passed twice and a pair came back.
C4_Witness ==
    \E i, j \in Finished :
        /\ i < j
        /\ calls[i].area = calls[j].area
        /\ Returned(i) /\ Returned(j)
        /\ calls[i].x.v > 1000 /\ calls[i].x.v < 1100

\* Whether v is a number within one twentieth (5%) of target.
Near(v, target) == IsNum(v) /\ Abs(v.v - target) * 20 <= target

\* C5 as stated: for an area of 10,000 square metres the raw fitted value is
\* about 0.001 and the function returns 0.001 on both axes.
C5_AsStated ==
    /\ pc = "adjust_x" /\ polygon_area = 10000 =>
           Near(new_interval_x, 1000) /\ Near(new_interval_y, 1000)
    /\ \A i \in Finished :
           Returned(i) /\ calls[i].area = 10000 =>
               calls[i].x = Num(1000) /\ calls[i].y = Num(1000)

\* C5 amended: for an area of 10,000 square metres the raw fitted value is
\* about 0.00142 (the fitted k, not the calibration interval 0.001), the
\* blended value exceeds 0.0011 and the function returns 0.0011 on both axes.
C5_OneHectare ==
    /\ pc = "adjust_x" /\ polygon_area = 10000 =>
           Near(new_interval_x, 1420) /\ Near(new_interval_y, 1420)
    /\ pc = "clamp_x" /\ polygon_area = 10000 =>
           new_interval_x.v > 1100 /\ new_interval_y.v > 1100
    /\ \A i \in Finished :
           Returned(i) /\ calls[i].area = 10000 =>
               calls[i].x = Num(1100) /\ calls[i].y = Num(1100)

\* C5 witness: a call with 10,000 square metres returned.
C5_Witness ==
    \E i \in Finished : Returned(i) /\ calls[i].area = 10000

\* C6 as stated: for an area of 1,000 square metres the raw fitted value is
\* about 0.0015, the blended value exceeds 0.0011 and the function returns
\* 0.0011 on both axes.
C6_AsStated ==
    /\ pc = "adjust_x" /\ polygon_area = 1000 =>
           Near(new_interval_x, 1500) /\ Near(new_interval_y, 1500)
    /\ pc = "clamp_x" /\ polygon_area = 1000 =>
           new_interval_x.v > 1100 /\ new_interval_y.v > 1100
    /\ \A i \in Finished :
           Returned(i) /\ calls[i].area = 1000 =>
               calls[i].x = Num(1100) /\ calls[i].y = Num(1100)

\* C6 amended: for an area of 1,000 square metres the raw fitted value lies
\* between 0.0010 and 0.0011 (about 0.00104), the blended value lies strictly
\* between the two clamp limits, and the function returns that blended value,
\* unclamped, on both axes.
C6_TenthHectare ==
    /\ pc = "adjust_x" /\ polygon_area = 1000 =>
           /\ IsNum(new_interval_x) /\ new_interval_x = new_interval_y
           /\ new_interval_x.v > 1000 /\ new_interval_x.v < 1100
    /\ pc = "clamp_x" /\ polygon_area = 1000 =>
           /\ new_interval_x = BlendOf(RawOf(1000))
           /\ new_interval_y = BlendOf(RawOf(1000))
           /\ new_interval_x.v > 1000 /\ new_interval_x.v < 1100
    /\ \A i \in Finished :
           Returned(i) /\ calls[i].area = 1000 =>
               /\ calls[i].x = BlendOf(RawOf(1000))
               /\ calls[i].y = BlendOf(RawOf(1000))

\* C6 witness: a call with 1,000 square metres returned.
C6_Witness ==
    \E i \in Finished : Returned(i) /\ calls[i].area = 1000

\* C7: for an area of 350,000 square metres the raw fitted value is within 5%
\* of 0.00225, the blended value exceeds the upper limit and the function
\* returns 0.0011 on both axes.
C7_ThirtyFiveHectares ==
    /\ pc = "adjust_x" /\ polygon_area = 350000 =>
           Near(new_interval_x, 2250) /\ Near(new_interval_y, 2250)
    /\ pc = "clamp_x" /\ polygon_area = 350000 =>
           new_interval_x.v > 1100 /\ new_interval_y.v > 1100
    /\ \A i \in Finished :
           Returned(i) /\ calls[i].area = 350000 =>
               calls[i].x = Num(1100) /\ calls[i].y = Num(1100)

\* C7 witness: a call with 350,000 square metres returned.
C7_Witness ==
    \E i \in Finished : Returned(i) /\ calls[i].area = 350000

\* The fitted curve at calibration area i, less the calibration interval.
FitError(i) == power_law(areas[i], k, b).v - intervals[i]

\* C8 as stated: once fitted, the curve reproduces each of the five
\* calibration intervals within a small tolerance (5% of the interval is
\* allowed here).
C8_AsStated ==
    pc = "eval_x" => \A i \in 1..5 : Abs(FitError(i)) * 20 <= intervals[i]

\* C8 amended: the fitted curve is a least-squares compromise that reproduces
\* each calibration interval only to within 0.00085 degrees: it is within 5%
\* at 35 ha alone and misses by more than 0.0004 degrees at 0.1, 1.0, 4.5 and
\* 9.5 ha.
C8_FitResiduals ==
    pc = "eval_x" =>
        /\ \A i \in 1..5 : Abs(FitError(i)) <= 850
        /\ Abs(FitError(5)) * 20 <= intervals[5]
        /\ \A i \in 1..4 : Abs(FitError(i)) > 400

\* C8 witness: a fit has converged and its parameters are in k and b.
C8_Witness == pc = "eval_x" /\ k > 0 /\ b # 0

\* C9: when the solver does not converge, the call ends at the fit with the
\* error: no later line runs, every finished call gave its caller the
\* RuntimeError and no interval, default or fitted.
C9_FitFailurePropagates ==
    ~converges =>
        /\ pc \in {"idle", "convert", "fit"}
        /\ \A i \in Finished :
               /\ calls[i].outcome = "RuntimeError"
               /\ calls[i].x = Unset
               /\ calls[i].y = Unset

\* C9 witness: the solver did not converge and a call has ended.
C9_Witness == ~converges /\ Len(calls) > 0

\* C10: a zero or negative area is never refused: the call reaches the
\* power-law evaluation with a non-positive number of hectares, which
\* evaluates to 0 or nan, and when the fit converges the call returns a pair
\* of numbers.
C10_NonPositiveAreaNotRejected ==
    /\ pc = "adjust_x" /\ polygon_area <= 0 =>
           /\ polygon_area_ha <= 0
           /\ new_interval_x \in {Num(0), NaN}
           /\ new_interval_y \in {Num(0), NaN}
    /\ \A i \in Finished :
           calls[i].area <= 0 =>
               /\ calls[i].outcome # "InvalidArgument"
               /\ converges =>
                      /\ Returned(i)
                      /\ IsNum(calls[i].x)
                      /\ IsNum(calls[i].y)

\* C10 witness: a call with a negative area and a call with a zero area both
\* returned a pair.
C10_Witness ==
    \E i, j \in Finished :
        /\ Returned(i) /\ calls[i].area < 0
        /\ Returned(j) /\ calls[j].area = 0

\* ------------------------------------------------ concurrent calls
\* set_grid_intervals called from NumThreads threads at once. Each thread has
\* its own frame (the locals of lines 74-98); a thread runs one line at a
\* step and the threads interleave freely.
NumThreads == 2
Threads == 1 .. NumThreads

\* Areas with four different results: the lower limit, two unclamped values
\* and the upper limit.
ThreadAreas == {0 - AreaStep, 4 * AreaStep, 5 * AreaStep, SqmPerHa}

MidCall == {"convert", "fit", "eval_x", "eval_y", "adjust_x", "adjust_y",
            "clamp_x", "clamp_y", "return"}

\* A thread that has not called yet. outcome, x and y are what the finished
\* call gave its caller; met is the set of threads whose call overlapped.
NoCall ==
    [pc |-> "idle", polygon_area |-> 0, polygon_area_ha |-> 0, k |-> 0,
     b |-> 0, new_interval_x |-> Unset, new_interval_y |-> Unset,
     outcome |-> "none", x |-> Unset, y |-> Unset, met |-> {}]

\* Thread t runs one line, which changes its own frame only.
StepIn(t, frame) ==
    /\ frames' = [frames EXCEPT ![t] = frame]
    /\ UNCHANGED << vars, notThreads >>

\* def set_grid_intervals(polygon_area), entered by thread t.
CallIn(t, area) ==
    /\ frames[t].pc = "idle"
    /\ LET running == {u \in Threads : frames[u].pc \in MidCall}
       IN  frames' = [u \in Threads |->
                        IF u = t
                        THEN [frames[t] EXCEPT !.pc = "convert",
                                               !.polygon_area = area,
                                               !.met = running]
                        ELSE IF u \in running
                        THEN [frames[u] EXCEPT !.met = @ \cup {t}]
                        ELSE frames[u]]
    /\ UNCHANGED << vars, notThreads >>

\* polygon_area_ha = polygon_area / 10000
ConvertIn(t) ==
    /\ frames[t].pc = "convert"
    /\ StepIn(t, [frames[t] EXCEPT
                      !.polygon_area_ha = HaOfSqm(frames[t].polygon_area),
                      !.pc = "fit"])

\* params, _ = curve_fit(...); k, b = params
FitConvergesIn(t) ==
    /\ frames[t].pc = "fit"
    /\ converges
    /\ StepIn(t, [frames[t] EXCEPT !.k = popt.k, !.b = popt.n,
                                   !.pc = "eval_x"])

\* curve_fit raises RuntimeError: the call of thread t ends with it.
FitRaisesIn(t) ==
    /\ frames[t].pc = "fit"
    /\ ~converges
    /\ StepIn(t, [NoCall EXCEPT !.pc = "done",
                                !.polygon_area = frames[t].polygon_area,
                                !.outcome = "RuntimeError",
                                !.met = frames[t].met])

\* The hectares read from a variable shared by the threads: the value any
\* thread in mid-call has written.
EvaluateXShared(t) ==
    /\ frames[t].pc = "eval_x"
    /\ \E u \in Threads :
           /\ frames[u].pc \in MidCall \ {"convert"}
           /\ StepIn(t, [frames[t] EXCEPT
                             !.new_interval_x =
                                 power_law(frames[u].polygon_area_ha,
                                           frames[t].k, frames[t].b),
                             !.pc = "eval_y"])

\* new_interval_x = power_law(polygon_area_ha, k, b)
EvaluateXIn(t) ==
    /\ frames[t].pc = "eval_x"
    /\ StepIn(t, [frames[t] EXCEPT
                      !.new_interval_x =
                          power_law(frames[t].polygon_area_ha,
                                    frames[t].k, frames[t].b),
                      !.pc = "eval_y"])

\* new_interval_y = power_law(polygon_area_ha, k, b)
EvaluateYIn(t) ==
    /\ frames[t].pc = "eval_y"
    /\ StepIn(t, [frames[t] EXCEPT
                      !.new_interval_y =
                          power_law(frames[t].polygon_area_ha,
                                    frames[t].k, frames[t].b),
                      !.pc = "adjust_x"])

\* Lines 91 and 92.
AdjustXIn(t) ==
    /\ frames[t].pc = "adjust_x"
    /\ StepIn(t, [frames[t] EXCEPT
                      !.new_interval_x = Adjusted(frames[t].new_interval_x),
                      !.pc = "adjust_y"])

AdjustYIn(t) ==
    /\ frames[t].pc = "adjust_y"
    /\ StepIn(t, [frames[t] EXCEPT
                      !.new_interval_y = Adjusted(frames[t].new_interval_y),
                      !.pc = "clamp_x"])

\* Lines 97 and 98.
ClampXIn(t) ==
    /\ frames[t].pc = "clamp_x"
    /\ StepIn(t, [frames[t] EXCEPT
                      !.new_interval_x = Clamped(frames[t].new_interval_x),
                      !.pc = "clamp_y"])

ClampYIn(t) ==
    /\ frames[t].pc = "clamp_y"
    /\ StepIn(t, [frames[t] EXCEPT
                      !.new_interval_y = Clamped(frames[t].new_interval_y),
                      !.pc = "return"])

\* return new_interval_x, new_interval_y
ReturnIn(t) ==
    /\ frames[t].pc = "return"
    /\ StepIn(t, [NoCall EXCEPT !.pc = "done",
                                !.polygon_area = frames[t].polygon_area,
                                !.outcome = "returned",
                                !.x = frames[t].new_interval_x,
                                !.y = frames[t].new_interval_y,
                                !.met = frames[t].met])

ThreadsInit ==
    /\ GridIdle
    /\ converges \in BOOLEAN
    /\ frames = [t \in Threads |-> NoCall]
    /\ LayersIdle
    /\ AreaIdle
    /\ LayoutsIdle
    /\ DemoIdle

ThreadsNext ==
    \E t \in Threads :
        \/ \E area \in ThreadAreas : CallIn(t, area)
        \/ ConvertIn(t)
        \/ FitConvergesIn(t)
        \/ FitRaisesIn(t)
        \/ EvaluateXIn(t)
        \/ EvaluateYIn(t)
        \/ AdjustXIn(t)
        \/ AdjustYIn(t)
        \/ ClampXIn(t)
        \/ ClampYIn(t)
        \/ ReturnIn(t)

SpecThreads == ThreadsInit /\ [][ThreadsNext]_<< vars, outside >>

\* What one call gives when it runs alone: lines 74-100 in order.
Alone(area) == Clamped(Adjusted(power_law(HaOfSqm(area), popt.k, popt.n)))

\* C11: under any interleaving of concurrent calls, every finished call gave
\* its caller exactly what the call gives when it runs alone: the pair for
\* its own area, or the fit's RuntimeError when the solver does not converge.
C11_ConcurrentCallsIsolated ==
    \A t \in DOMAIN frames :
        frames[t].pc = "done" =>
            IF converges
            THEN /\ frames[t].outcome = "returned"
                 /\ frames[t].x = Alone(frames[t].polygon_area)
                 /\ frames[t].y = Alone(frames[t].polygon_area)
            ELSE /\ frames[t].outcome = "RuntimeError"
                 /\ frames[t].x = Unset
                 /\ frames[t].y = Unset

\* C11 witness: two calls that overlapped in time have both returned, with
\* different areas and different results.
C11_Witness ==
    \E t, u \in DOMAIN frames :
        /\ t # u
        /\ u \in frames[t].met
        /\ frames[t].outcome = "returned"
        /\ frames[u].outcome = "returned"
        /\ frames[t].polygon_area # frames[u].polygon_area
        /\ frames[t].x # frames[u].x

\* ------------------------------------------------ the layer registry
\* The project's layers as project.mapLayers().values() yields them: a layer is
\* [id, name]. Several layers may carry one name. The place a new layer takes
\* in the iteration order follows from its generated id, so it is any place.
MaxInitLayers == 2
MaxLayerIds == 4
LayerNames == {"Bing Aerial", "PolygonLayer"}

None == [kind |-> "None", id |-> 0]
PyTrue == [kind |-> "True", id |-> 0]
PyFalse == [kind |-> "False", id |-> 0]
LayerRef(id) == [kind |-> "layer", id |-> id]

\* The index of the last layer of the name: the loop run from the far end.
LastNamed(ls, name) ==
    LET scan[i \in 0 .. Len(ls)] ==
            IF i = 0 THEN 0
            ELSE IF ls[i].name = name THEN i
            ELSE scan[i - 1]
    IN  scan[Len(ls)]

\* The index of the first layer of the iteration whose name() is name, 0 when
\* the loop ends without one.
FirstNamed(ls, name) ==
    LET scan[i \in 1 .. Len(ls) + 1] ==
            IF i > Len(ls) THEN 0
            ELSE IF ls[i].name = name THEN i
            ELSE scan[i + 1]
    IN  scan[1]

\* project.removeMapLayer(ls[i])
RemoveAt(ls, i) == SubSeq(ls, 1, i - 1) \o SubSeq(ls, i + 1, Len(ls))

\* project.addMapLayer(layer), the layer landing at place i of the iteration
InsertAt(ls, i, layer) ==
    SubSeq(ls, 1, i - 1) \o << layer >> \o SubSeq(ls, i, Len(ls))

\* The loop of remove_existing_layer: the registry it leaves.
RemoveExisting(ls, name) ==
    LET i == FirstNamed(ls, name)
    IN  IF i = 0 THEN ls ELSE RemoveAt(ls, i)

\* fundamentals.remove_existing_layer returns True from inside the loop and
\* False after it.
RemovedFlag(ls, name) == IF FirstNamed(ls, name) = 0 THEN PyFalse ELSE PyTrue

NoLoad == [fn |-> "none", name |-> "", before |-> << >>]
NoLastCall ==
    [fn |-> "none", name |-> "", valid |-> FALSE, before |-> << >>,
     after |-> << >>, ret |-> None, new |-> 0,
     prior_fn |-> "none", prior_name |-> "", prior_ret |-> None]

\* The record of a finished call, remembering the call before it.
Finish(fn, name, valid, before, after, ret, new) ==
    [fn |-> fn, name |-> name, valid |-> valid, before |-> before,
     after |-> after, ret |-> ret, new |-> new,
     prior_fn |-> last_call.fn, prior_name |-> last_call.name,
     prior_ret |-> last_call.ret]

\* Registries a project can hold before the scripts run: up to MaxInitLayers
\* layers of any names, two of one name included.
InitRegistries ==
    UNION {[1 .. n -> LayerNames] : n \in 0 .. MaxInitLayers}

LayersInit ==
    /\ GridIdle
    /\ converges = TRUE
    /\ ThreadsIdle
    /\ \E names \in InitRegistries :
           /\ layers = [i \in DOMAIN names |-> [id |-> i, name |-> names[i]]]
           /\ next_id = Len(names) + 1
    /\ loading = NoLoad
    /\ last_call = NoLastCall
    /\ AreaIdle
    /\ LayoutsIdle
    /\ DemoIdle

\* A direct call of one of the three remove_existing_layer functions.
DirectRemove(fn, name, ret) ==
    /\ loading = NoLoad
    /\ layers' = RemoveExisting(layers, name)
    /\ last_call' = Finish(fn, name, FALSE, layers, layers', ret, 0)
    /\ UNCHANGED << next_id, loading, vars, notLayers >>

\* fundamentals.py
remove_existing_layer_fundamentals(name) ==
    DirectRemove("fundamentals.remove_existing_layer", name,
                 RemovedFlag(layers, name))

\* qgis_workflow.py: a bare return inside the loop, None either way
remove_existing_layer_workflow(name) ==
    DirectRemove("qgis_workflow.remove_existing_layer", name, None)

\* districts.py: break inside the loop, None either way
remove_existing_layer_districts(name) ==
    DirectRemove("districts.remove_existing_layer", name, None)

\* The first project call of a load function: its module's
\* remove_existing_layer(project, name).
BeginLoad(fn, name) ==
    /\ loading = NoLoad
    /\ next_id <= MaxLayerIds
    /\ layers' = RemoveExisting(layers, name)
    /\ loading' = [fn |-> fn, name |-> name, before |-> layers]
    /\ UNCHANGED << next_id, last_call, vars, notLayers >>

\* The rest of a load function: the layer is constructed; when isValid() it is
\* added to the project and returned, otherwise None is returned.
EndLoad(fn, valid, place) ==
    /\ loading.fn = fn
    /\ layers' = IF valid
                 THEN InsertAt(layers, place,
                               [id |-> next_id, name |-> loading.name])
                 ELSE layers
    /\ next_id' = next_id + 1
    /\ last_call' = Finish(fn, loading.name, valid, loading.before, layers',
                           IF valid THEN LayerRef(next_id) ELSE None, next_id)
    /\ loading' = NoLoad
    /\ UNCHANGED << vars, notLayers >>

\* fundamentals.py
replace_layer_with_raster(name) == BeginLoad("replace_layer_with_raster", name)
replace_layer_with_raster_add(valid, place) ==
    EndLoad("replace_layer_with_raster", valid, place)

\* load_bing_layer without its first line.
load_bing_layer_keeping(name) ==
    /\ loading = NoLoad
    /\ next_id <= MaxLayerIds
    /\ loading' = [fn |-> "load_bing_layer", name |-> name, before |-> layers]
    /\ UNCHANGED << layers, next_id, last_call, vars, notLayers >>

\* districts.py
load_bing_layer(name) == BeginLoad("load_bing_layer", name)
load_bing_layer_add(valid, place) == EndLoad("load_bing_layer", valid, place)

\* qgis_workflow.py: the name is always "PolygonLayer"
load_polygon_layer == BeginLoad("load_polygon_layer", "PolygonLayer")
load_polygon_layer_add(valid, place) ==
    EndLoad("load_polygon_layer", valid, place)

\* load_raster_layer that builds its layer without looking for one of the name.
load_raster_layer_unchecked(name, valid, place) ==
    /\ loading = NoLoad
    /\ next_id <= MaxLayerIds
    /\ layers' = IF valid
                 THEN InsertAt(layers, place, [id |-> next_id, name |-> name])
                 ELSE layers
    /\ next_id' = next_id + 1
    /\ last_call' = Finish("load_raster_layer", name, valid, layers, layers',
                           IF valid THEN LayerRef(next_id) ELSE None, next_id)
    /\ UNCHANGED << loading, vars, notLayers >>

\* qgis_workflow.load_raster_layer: the first layer of the name is returned as
\* it is; only when there is none is a layer constructed and, when valid,
\* added.
load_raster_layer(name, valid, place) ==
    /\ loading = NoLoad
    /\ next_id <= MaxLayerIds
    /\ LET i == FirstNamed(layers, name)
       IN  IF i # 0
           THEN /\ last_call' = Finish("load_raster_layer", name, FALSE, layers,
                                       layers, LayerRef(layers[i].id), 0)
                /\ UNCHANGED << layers, next_id >>
           ELSE /\ layers' = IF valid
                             THEN InsertAt(layers, place,
                                           [id |-> next_id, name |-> name])
                             ELSE layers
                /\ next_id' = next_id + 1
                /\ last_call' = Finish("load_raster_layer", name, valid, layers,
                                       layers',
                                       IF valid THEN LayerRef(next_id)
                                       ELSE None, next_id)
    /\ UNCHANGED << loading, vars, notLayers >>

Places == 1 .. Len(layers) + 1

LayersNext ==
    \/ \E name \in LayerNames : remove_existing_layer_fundamentals(name)
    \/ \E name \in LayerNames : remove_existing_layer_workflow(name)
    \/ \E name \in LayerNames : remove_existing_layer_districts(name)
    \/ \E name \in LayerNames : replace_layer_with_raster(name)
    \/ \E valid \in BOOLEAN, place \in Places :
           replace_layer_with_raster_add(valid, place)
    \/ \E name \in LayerNames : load_bing_layer(name)
    \/ \E valid \in BOOLEAN, place \in Places : load_bing_layer_add(valid, place)
    \/ load_polygon_layer
    \/ \E valid \in BOOLEAN, place \in Places :
           load_polygon_layer_add(valid, place)
    \/ \E name \in LayerNames, valid \in BOOLEAN, place \in Places :
           load_raster_layer(name, valid, place)

SpecLayers == LayersInit /\ [][LayersNext]_<< vars, outside >>

\* The places of the layers of a name in a registry.
Named(ls, name) == {i \in DOMAIN ls : ls[i].name = name}

\* A registry less its first layer of a name; the registry itself when it has
\* none.
DropFirst(ls, name) ==
    IF Named(ls, name) = {} THEN ls
    ELSE LET i == CHOOSE h \in Named(ls, name) :
                      \A j \in Named(ls, name) : h <= j
         IN  [n \in 1 .. Len(ls) - 1 |-> IF n < i THEN ls[n] ELSE ls[n + 1]]

RemoveFns == {"fundamentals.remove_existing_layer",
              "qgis_workflow.remove_existing_layer",
              "districts.remove_existing_layer"}
LoadFns == {"replace_layer_with_raster", "load_bing_layer",
            "load_polygon_layer"}

\* C12: remove_existing_layer leaves the registry less exactly one layer, the
\* first of the iteration with the name, every other layer (of the same name
\* too) staying in place; with no layer of the name the registry is as it
\* was. The fundamentals.py function returns True when the registry changed
\* and False when it did not.
C12_RemovesFirstNamedOnly ==
    last_call.fn \in RemoveFns =>
        /\ last_call.after = DropFirst(last_call.before, last_call.name)
        /\ Named(last_call.before, last_call.name) = {} =>
               last_call.after = last_call.before
        /\ Named(last_call.before, last_call.name) # {} =>
               Len(last_call.after) = Len(last_call.before) - 1
        /\ last_call.fn = "fundamentals.remove_existing_layer" =>
               /\ last_call.ret \in {PyTrue, PyFalse}
               /\ last_call.ret = PyTrue <=>
                      last_call.after # last_call.before

\* C12 witness: fundamentals.remove_existing_layer ran on a registry with two
\* layers of the name, returned True, and one of the two is still registered.
C12_Witness ==
    /\ last_call.fn = "fundamentals.remove_existing_layer"
    /\ Cardinality(Named(last_call.before, last_call.name)) = 2
    /\ Cardinality(Named(last_call.after, last_call.name)) = 1
    /\ last_call.ret = PyTrue

\* C13: in replace_layer_with_raster, load_bing_layer and load_polygon_layer
\* the registered layer of the target name is already removed while the new
\* layer is being built; a valid new layer ends up registered and is the
\* return value; an invalid one gives None and the registry holds no new
\* layer.
C13_RemovesThenRegisters ==
    /\ loading.fn \in LoadFns =>
           layers = DropFirst(loading.before, loading.name)
    /\ last_call.fn \in LoadFns =>
           IF last_call.valid
           THEN /\ last_call.ret = LayerRef(last_call.new)
                /\ \E i \in DOMAIN last_call.after :
                       /\ last_call.after[i] =
                              [id |-> last_call.new, name |-> last_call.name]
                       /\ RemoveAt(last_call.after, i) =
                              DropFirst(last_call.before, last_call.name)
           ELSE /\ last_call.ret = None
                /\ last_call.after =
                       DropFirst(last_call.before, last_call.name)

\* C13 witness: load_bing_layer found a layer of its name registered and
\* built a valid layer, which it returned.
C13_Witness ==
    /\ last_call.fn = "load_bing_layer"
    /\ last_call.valid
    /\ Named(last_call.before, last_call.name) # {}
    /\ last_call.ret = LayerRef(last_call.new)

\* A call of load_raster_layer directly after another with the same name.
SecondRasterLoad ==
    /\ last_call.fn = "load_raster_layer"
    /\ last_call.prior_fn = "load_raster_layer"
    /\ last_call.prior_name = last_call.name

\* What both forms of C14 say of one call: a registered layer of the name is
\* returned and the registry stays as it is, and the call never leaves more
\* layers of the name than one or than it found.
RasterLoadReuses ==
    last_call.fn = "load_raster_layer" =>
        /\ Named(last_call.before, last_call.name) # {} =>
               /\ last_call.after = last_call.before
               /\ \E i \in Named(last_call.before, last_call.name) :
                      /\ last_call.ret = LayerRef(last_call.before[i].id)
                      /\ \A j \in Named(last_call.before, last_call.name) :
                             i <= j
        /\ \/ Cardinality(Named(last_call.after, last_call.name)) <= 1
           \/ last_call.after = last_call.before

\* C14 as stated: load_raster_layer re-uses a registered layer of the name,
\* and a second call with the same name leaves the registry as the first
\* call left it.
C14_AsStated ==
    /\ RasterLoadReuses
    /\ SecondRasterLoad => last_call.after = last_call.before

\* C14 amended: load_raster_layer re-uses a registered layer of the name and
\* never registers a second one; a second call with the same name leaves the
\* registry as the first call left it when the first call returned a layer
\* (after a first call that returned None the second builds a layer again).
C14_ReusesRegisteredLayer ==
    /\ RasterLoadReuses
    /\ SecondRasterLoad /\ last_call.prior_ret # None =>
           /\ last_call.after = last_call.before
           /\ last_call.ret = last_call.prior_ret

\* C14 witness: two calls in a row with one name; the first built and
\* registered a layer, the second returned that layer.
C14_Witness ==
    /\ SecondRasterLoad
    /\ last_call.prior_ret.kind = "layer"
    /\ last_call.ret = last_call.prior_ret
    /\ last_call.new = 0

\* ------------------------------------------------ area and centroid
\* qgis_workflow.calculate_area_and_centroid. A feature of the layer is
\* [has_geom, transforms, area]: whether feat.geometry() is non-null, whether
\* transform(transform_to_utm) returns 0, and the area of the transformed
\* geometry in square metres. The centroid of the geometry of the feature at
\* place i is the point PointOf(i).
MaxFeatures == 3
FeatureAreas == {0, 12345}
FeatureChoices ==
    {[has_geom |-> FALSE, transforms |-> FALSE, area |-> 0]}
    \cup {[has_geom |-> TRUE, transforms |-> t, area |-> a] :
              t \in BOOLEAN, a \in FeatureAreas}
FeatureLists == UNION {[1 .. n -> FeatureChoices] : n \in 0 .. MaxFeatures}

\* A float (id holds the fixed-point value) and a QgsPointXY.
FloatVal(v) == [kind |-> "float", id |-> v]
PointOf(i) == [kind |-> "point", id |-> i]
NonePair == [area_ha |-> None, centroid |-> None]

\* The loop with a failed transform ending the call: return None, None where
\* the code has continue.
AreaAndCentroidGivingUp(fs, setup_ok) ==
    IF ~setup_ok THEN NonePair
    ELSE LET loop[i \in 1 .. Len(fs) + 1] ==
                 IF i > Len(fs) THEN NonePair
                 ELSE IF ~fs[i].has_geom THEN loop[i + 1]
                 ELSE IF ~fs[i].transforms THEN NonePair
                 ELSE [area_ha |-> FloatVal(HaOfSqm(fs[i].area)),
                       centroid |-> PointOf(i)]
         IN  loop[1]

\* What the function returns: (None, None) when setting up the transform
\* raises; otherwise the loop over getFeatures(), which skips a feature
\* without geometry and a feature whose transform fails and returns at the
\* first feature left; (None, None) after the loop.
AreaAndCentroid(fs, setup_ok) ==
    IF ~setup_ok THEN NonePair
    ELSE LET loop[i \in 1 .. Len(fs) + 1] ==
                 IF i > Len(fs) THEN NonePair
                 ELSE IF ~fs[i].has_geom THEN loop[i + 1]
                 ELSE IF ~fs[i].transforms THEN loop[i + 1]
                 ELSE [area_ha |-> FloatVal(HaOfSqm(fs[i].area)),
                       centroid |-> PointOf(i)]
         IN  loop[1]

NoAreaCall ==
    [called |-> FALSE, features |-> << >>, setup_ok |-> TRUE, ret |-> NonePair]

AreaInit ==
    /\ GridIdle
    /\ converges = TRUE
    /\ ThreadsIdle
    /\ LayersIdle
    /\ area_call = NoAreaCall
    /\ LayoutsIdle
    /\ DemoIdle

calculate_area_and_centroid(fs, setup_ok) ==
    /\ area_call' = [called |-> TRUE, features |-> fs, setup_ok |-> setup_ok,
                     ret |-> AreaAndCentroid(fs, setup_ok)]
    /\ UNCHANGED << vars, notArea >>

AreaNext ==
    \E fs \in FeatureLists, setup_ok \in BOOLEAN :
        calculate_area_and_centroid(fs, setup_ok)

SpecArea == AreaInit /\ [][AreaNext]_<< vars, outside >>

\* The features the loop can return at: with geometry, and transforming.
Usable(fs) == {i \in DOMAIN fs : fs[i].has_geom /\ fs[i].transforms}

\* ret is the area and centroid of the feature at place i: the centroid is
\* that feature's and the hectares are its area over 10,000 (to the rounding
\* of the fixed point).
IsResultOf(ret, fs, i) ==
    /\ ret.centroid = PointOf(i)
    /\ ret.area_ha.kind = "float"
    /\ Abs(ret.area_ha.id * SqmPerHa - fs[i].area * PScale) <= SqmPerHa \div 2

\* C15: the area and centroid the function returns are those of the first
\* feature of the layer; no later feature determines the result.
C15_FirstFeatureOnly ==
    area_call.called /\ area_call.ret # NonePair =>
        IsResultOf(area_call.ret, area_call.features, 1)

MaxLayoutIds == 4
SimpleName == "MySimpleLayout"
DistrictName == "District_Layout"
InitLayoutNames == {SimpleName, DistrictName, "Atlas"}

\* Managers a project can hold before the scripts run: layouts of different
\* names, in any order.
InitManagers ==
    {ns \in UNION {[1 .. n -> InitLayoutNames] : n \in 0 .. 2} :
         \A i, j \in DOMAIN ns : i # j => ns[i] # ns[j]}

\* manager.layoutByName(name): the place of the first layout of the name, 0
\* for None.
LayoutByName(ms, name) ==
    LET scan[i \in 1 .. Len(ms) + 1] ==
            IF i > Len(ms) THEN 0
            ELSE IF ms[i].name = name THEN i
            ELSE scan[i + 1]
    IN  scan[1]

\* existing_layout = layoutByName(name); if existing_layout: removeLayout(...)
RemoveLayoutNamed(ms, name) ==
    LET i == LayoutByName(ms, name)
    IN  IF i = 0 THEN ms ELSE RemoveAt(ms, i)

\* The id of the layout those lines remove, 0 when there is none.
ExistingLayout(ms, name) ==
    LET i == LayoutByName(ms, name)
    IN  IF i = 0 THEN 0 ELSE ms[i].id

NoLayoutCall ==
    [fn |-> "none", pc |-> "idle", polygon |-> None, raster |-> None,
     mall_info_valid |-> FALSE, replaced |-> 0, layout |-> 0,
     exports |-> << >>, outcome |-> "none"]

\* The layer arguments a caller can pass: None or a layer of the project.
LayerArgs == {None} \cup {LayerRef(layers[i].id) : i \in DOMAIN layers}

LayoutsInit ==
    /\ GridIdle
    /\ converges = TRUE
    /\ ThreadsIdle
    /\ \E names \in InitRegistries :
           /\ layers = [i \in DOMAIN names |-> [id |-> i, name |-> names[i]]]
           /\ next_id = Len(names) + 1
    /\ loading = NoLoad
    /\ last_call = NoLastCall
    /\ AreaIdle
    /\ \E ns \in InitManagers :
           /\ layouts = [i \in DOMAIN ns |->
                            [id |-> i, name |-> ns[i], map_layers |-> << >>]]
           /\ next_layout = Len(ns) + 1
    /\ layout_call = NoLayoutCall
    /\ scale_bar_bound \in BOOLEAN
    /\ DemoIdle

\* A layout function is entered: lines 331-336 of qgis_workflow.py, lines
\* 456-464 of districts.py.
BeginLayout(fn, name, polygon, raster) ==
    /\ layout_call.pc \in {"idle", "done"}
    /\ next_layout <= MaxLayoutIds
    /\ layouts' = RemoveLayoutNamed(layouts, name)
    /\ layout_call' = [NoLayoutCall EXCEPT
                           !.fn = fn, !.pc = "add", !.polygon = polygon,
                           !.raster = raster, !.mall_info_valid = TRUE,
                           !.replaced = ExistingLayout(layouts, name),
                           !.outcome = "running"]
    /\ UNCHANGED << next_layout, scale_bar_bound, vars, notLayouts >>

\* layout = QgsPrintLayout(project); layout.setName(name); addLayout(layout)
AddLayout(fn, name, then) ==
    /\ layout_call.fn = fn
    /\ layout_call.pc = "add"
    /\ layouts' = Append(layouts, [id |-> next_layout, name |-> name,
                                   map_layers |-> << >>])
    /\ next_layout' = next_layout + 1
    /\ layout_call' = [layout_call EXCEPT !.pc = then, !.layout = next_layout]
    /\ UNCHANGED << scale_bar_bound, vars, notLayouts >>

\* create_simple_layout entered without lines 333-336: the layout of the
\* name is left in the manager.
create_simple_layout_keeping(polygon, raster) ==
    /\ layout_call.pc \in {"idle", "done"}
    /\ next_layout <= MaxLayoutIds
    /\ layout_call' = [NoLayoutCall EXCEPT
                           !.fn = "create_simple_layout", !.pc = "add",
                           !.polygon = polygon, !.raster = raster,
                           !.mall_info_valid = TRUE, !.outcome = "running"]
    /\ UNCHANGED << layouts, next_layout, scale_bar_bound, vars, notLayouts >>

\* qgis_workflow.create_simple_layout(project, polygon_layer, raster_layer)
create_simple_layout(polygon, raster) ==
    BeginLayout("create_simple_layout", SimpleName, polygon, raster)

create_simple_layout_add == AddLayout("create_simple_layout", SimpleName, "map")

\* The layers of the map item: [raster_layer, polygon_layer] when both are
\* given, all the layers of the project otherwise.
SimpleMapLayers(polygon, raster) ==
    IF raster # None /\ polygon # None
    THEN << raster.id, polygon.id >>
    ELSE [i \in DOMAIN layers |-> layers[i].id]

\* Lines 345-377: the label, the map item with its layers, return layout.
create_simple_layout_map ==
    /\ layout_call.fn = "create_simple_layout"
    /\ layout_call.pc = "map"
    /\ layouts' = [i \in DOMAIN layouts |->
                      IF layouts[i].id = layout_call.layout
                      THEN [layouts[i] EXCEPT
                                !.map_layers =
                                    SimpleMapLayers(layout_call.polygon,
                                                    layout_call.raster)]
                      ELSE layouts[i]]
    /\ layout_call' = [layout_call EXCEPT !.pc = "done",
                                          !.outcome = "returned"]
    /\ UNCHANGED << next_layout, scale_bar_bound, vars, notLayouts >>

\* districts.create_district_map_layout: mall_info['mall_name'] at line 457
\* raises when mall_info is None, before the manager is touched.
create_district_map_layout(mall_info_valid) ==
    IF mall_info_valid
    THEN BeginLayout("create_district_map_layout", DistrictName, None, None)
    ELSE /\ layout_call.pc \in {"idle", "done"}
         /\ next_layout <= MaxLayoutIds
         /\ layout_call' = [NoLayoutCall EXCEPT
                                !.fn = "create_district_map_layout",
                                !.pc = "done", !.outcome = "TypeError"]
         /\ UNCHANGED << layouts, next_layout, scale_bar_bound, vars,
                         notLayouts >>

\* Lines 466-501: the layout is added, then map2 and the OSM label.
create_district_map_layout_add ==
    AddLayout("create_district_map_layout", DistrictName, "scale_bar")

\* Line 504: QgsLayoutItemScaleBar(layout). The name is not among the imports
\* of lines 5-35, so the lookup raises NameError unless the namespace the file
\* runs in binds it already. Lines 505-524 follow when it resolves.
create_district_map_layout_scale_bar ==
    /\ layout_call.fn = "create_district_map_layout"
    /\ layout_call.pc = "scale_bar"
    /\ layout_call' = IF scale_bar_bound
                      THEN [layout_call EXCEPT !.pc = "pdf"]
                      ELSE [layout_call EXCEPT !.pc = "done",
                                               !.outcome = "NameError"]
    /\ UNCHANGED << layouts, next_layout, scale_bar_bound, vars, notLayouts >>

\* Lines 530-538: exporter.exportToPdf(...) and the message for its result.
export_pdf(ok) ==
    /\ layout_call.pc = "pdf"
    /\ layout_call' = [layout_call EXCEPT
                           !.exports = Append(@, [kind |-> "pdf", ok |-> ok]),
                           !.pc = "png"]
    /\ UNCHANGED << layouts, next_layout, scale_bar_bound, vars, notLayouts >>

\* Lines 540-544: exporter.exportToImage(...), its message, and the end of
\* the function.
export_png(ok) ==
    /\ layout_call.pc = "png"
    /\ layout_call' = [layout_call EXCEPT
                           !.exports = Append(@, [kind |-> "png", ok |-> ok]),
                           !.pc = "done", !.outcome = "returned"]
    /\ UNCHANGED << layouts, next_layout, scale_bar_bound, vars, notLayouts >>

LayoutsNext ==
    \/ \E polygon \in LayerArgs, raster \in LayerArgs :
           create_simple_layout(polygon, raster)
    \/ create_simple_layout_add
    \/ create_simple_layout_map
    \/ \E mall_info_valid \in BOOLEAN :
           create_district_map_layout(mall_info_valid)
    \/ create_district_map_layout_add
    \/ create_district_map_layout_scale_bar
    \/ \E ok \in BOOLEAN : export_pdf(ok)
    \/ \E ok \in BOOLEAN : export_png(ok)

SpecLayouts == LayoutsInit /\ [][LayoutsNext]_<< vars, outside >>

\* The number of layouts of a name in the manager.
LayoutsNamed(name) ==
    Cardinality({i \in DOMAIN layouts : layouts[i].name = name})

\* C17: at every moment the manager holds at most one layout named
\* "MySimpleLayout" and at most one named "District_Layout"; when a call adds
\* its layout no layout of that name is left in the manager.
C17_OneLayoutPerName ==
    /\ LayoutsNamed(SimpleName) <= 1
    /\ LayoutsNamed(DistrictName) <= 1
    /\ layout_call.pc = "add" =>
           /\ layout_call.fn = "create_simple_layout" =>
                  LayoutsNamed(SimpleName) = 0
           /\ layout_call.fn = "create_district_map_layout" =>
                  LayoutsNamed(DistrictName) = 0

\* C17 witness: create_simple_layout has run to its end on a manager that
\* held a "MySimpleLayout"; that layout is gone and the new one is there,
\* next to a "District_Layout" made by the other function.
C17_Witness ==
    /\ layout_call.fn = "create_simple_layout"
    /\ layout_call.pc = "done"
    /\ layout_call.replaced # 0
    /\ \A i \in DOMAIN layouts : layouts[i].id # layout_call.replaced
    /\ \E i \in DOMAIN layouts :
           layouts[i].id = layout_call.layout /\ layouts[i].name = SimpleName
    /\ \E i \in DOMAIN layouts :
           layouts[i].name = DistrictName /\ layouts[i].id > 2

\* The layers given to the map item of the layout the last call made.
MapLayersOfCall ==
    UNION {{layouts[i].map_layers[n] : n \in DOMAIN layouts[i].map_layers} :
               i \in {j \in DOMAIN layouts :
                          layouts[j].id = layout_call.layout}}

\* The layers the last call was passed: its arguments that are not None.
PassedLayers ==
    {a.id : a \in {layout_call.polygon, layout_call.raster} \ {None}}

\* C18: when create_simple_layout has returned, the layers of the layout's
\* map item are only layers that were passed as arguments: with polygon_layer
\* None the map has no polygon layer, with raster_layer None no raster layer.
C18_OnlyPassedLayers ==
    layout_call.fn = "create_simple_layout" /\ layout_call.pc = "done" =>
        MapLayersOfCall \subseteq PassedLayers

\* C20: every call of create_district_map_layout with a valid mall_info that
\* has ended made both export attempts, the PDF first and the PNG second,
\* whatever the PDF export returned.
C20_ExportsPdfThenPng ==
    /\ layout_call.fn = "create_district_map_layout"
    /\ layout_call.pc = "done"
    /\ layout_call.mall_info_valid
    => /\ Len(layout_call.exports) = 2
       /\ layout_call.exports[1].kind = "pdf"
       /\ layout_call.exports[2].kind = "png"

\* ------------------------------------------------ main_demo
\* qgis_workflow.main_demo, one call of a helper at a step. The frame holds
\* the locals and, in steps, the helpers called so far in this run.
RasterName == "Bing Aerial"
PolygonName == "PolygonLayer"
MarkerName == "CentroidMarker"

NoDemo ==
    [pc |-> "idle", raster_layer |-> None, polygon_layer |-> None,
     area_hectares |-> None, centroid_point_utm |-> None,
     marker_layer |-> None, layout |-> 0, steps |-> << >>]

\* A place of the iteration order no further than one past the end.
PlaceIn(ls, place) == IF place > Len(ls) + 1 THEN Len(ls) + 1 ELSE place

\* The registry after load_polygon_layer or create_marker_layer: the first
\* layer of the name removed, then the new layer added when it is valid.
RegistryAfterReplace(ls, name, valid, place, id) ==
    LET base == RemoveExisting(ls, name)
    IN  IF valid
        THEN InsertAt(base, PlaceIn(base, place), [id |-> id, name |-> name])
        ELSE base

DemoInit ==
    /\ GridIdle
    /\ converges = TRUE
    /\ ThreadsIdle
    /\ \E names \in InitRegistries :
           /\ layers = [i \in DOMAIN names |-> [id |-> i, name |-> names[i]]]
           /\ next_id = Len(names) + 1
    /\ loading = NoLoad
    /\ last_call = NoLastCall
    /\ AreaIdle
    /\ \E ns \in InitManagers :
           /\ layouts = [i \in DOMAIN ns |->
                            [id |-> i, name |-> ns[i], map_layers |-> << >>]]
           /\ next_layout = Len(ns) + 1
    /\ layout_call = NoLayoutCall
    /\ scale_bar_bound = FALSE
    /\ demo = NoDemo

\* One step of main_demo that leaves the project as it is.
DemoStep(frame) ==
    /\ demo' = frame
    /\ UNCHANGED << layers, next_id, layouts, next_layout, vars, notDemo >>

\* def main_demo(polygon_kml_path): lines 412-414
main_demo ==
    /\ demo.pc \in {"idle", "done"}
    /\ next_id <= MaxLayerIds
    /\ next_layout <= MaxLayoutIds
    /\ DemoStep([NoDemo EXCEPT !.pc = "raster"])

\* raster_layer = load_raster_layer(project, bing_layer_name, bing_url); a
\* None result does not end the run.
main_demo_load_raster(valid, place) ==
    /\ demo.pc = "raster"
    /\ LET i == FirstNamed(layers, RasterName)
           ret == IF i # 0 THEN LayerRef(layers[i].id)
                  ELSE IF valid THEN LayerRef(next_id) ELSE None
       IN  /\ layers' = IF i = 0 /\ valid
                        THEN InsertAt(layers, place,
                                      [id |-> next_id, name |-> RasterName])
                        ELSE layers
           /\ next_id' = IF i = 0 THEN next_id + 1 ELSE next_id
           /\ demo' = [demo EXCEPT
                           !.raster_layer = ret,
                           !.steps = Append(@, "load_raster_layer"),
                           !.pc = "polygon"]
    /\ UNCHANGED << layouts, next_layout, vars, notDemo >>

\* polygon_layer = load_polygon_layer(project, polygon_kml_path);
\* if not polygon_layer: return
main_demo_load_polygon(valid, place) ==
    /\ demo.pc = "polygon"
    /\ layers' = RegistryAfterReplace(layers, PolygonName, valid, place,
                                      next_id)
    /\ next_id' = next_id + 1
    /\ demo' = [demo EXCEPT
                    !.polygon_layer = IF valid THEN LayerRef(next_id) ELSE None,
                    !.steps = Append(@, "load_polygon_layer"),
                    !.pc = IF valid THEN "area" ELSE "done"]
    /\ UNCHANGED << layouts, next_layout, vars, notDemo >>

\* Line 428 without the test of lines 429-431.
main_demo_calculate_unchecked(fs, setup_ok) ==
    /\ demo.pc = "area"
    /\ LET ret == AreaAndCentroid(fs, setup_ok)
       IN  DemoStep([demo EXCEPT
                         !.area_hectares = ret.area_ha,
                         !.centroid_point_utm = ret.centroid,
                         !.steps = Append(@, "calculate_area_and_centroid"),
                         !.pc = "marker"])

\* area_hectares, centroid_point_utm = calculate_area_and_centroid(...);
\* if area_hectares is None or centroid_point_utm is None: return
main_demo_calculate(fs, setup_ok) ==
    /\ demo.pc = "area"
    /\ LET ret == AreaAndCentroid(fs, setup_ok)
       IN  DemoStep([demo EXCEPT
                         !.area_hectares = ret.area_ha,
                         !.centroid_point_utm = ret.centroid,
                         !.steps = Append(@, "calculate_area_and_centroid"),
                         !.pc = IF ret.area_ha = None \/ ret.centroid = None
                                THEN "done" ELSE "marker"])

\* marker_layer = create_marker_layer(project, centroid_point_utm);
\* if not marker_layer: return
main_demo_create_marker(valid, place) ==
    /\ demo.pc = "marker"
    /\ layers' = RegistryAfterReplace(layers, MarkerName, valid, place,
                                      next_id)
    /\ next_id' = next_id + 1
    /\ demo' = [demo EXCEPT
                    !.marker_layer = IF valid THEN LayerRef(next_id) ELSE None,
                    !.steps = Append(@, "create_marker_layer"),
                    !.pc = IF valid THEN "layout" ELSE "done"]
    /\ UNCHANGED << layouts, next_layout, vars, notDemo >>

\* layout = create_simple_layout(project, polygon_layer, raster_layer)
main_demo_create_layout ==
    /\ demo.pc = "layout"
    /\ layouts' = Append(RemoveLayoutNamed(layouts, SimpleName),
                         [id |-> next_layout, name |-> SimpleName,
                          map_layers |->
                              SimpleMapLayers(demo.polygon_layer,
                                              demo.raster_layer)])
    /\ next_layout' = next_layout + 1
    /\ demo' = [demo EXCEPT !.layout = next_layout,
                            !.steps = Append(@, "create_simple_layout"),
                            !.pc = "complete"]
    /\ UNCHANGED << layers, next_id, vars, notDemo >>

\* print("Workflow complete.")
main_demo_complete ==
    /\ demo.pc = "complete"
    /\ DemoStep([demo EXCEPT !.steps = Append(@, "Workflow complete."),
                             !.pc = "done"])

DemoNext ==
    \/ main_demo
    \/ \E valid \in BOOLEAN, place \in Places :
           main_demo_load_raster(valid, place)
    \/ \E valid \in BOOLEAN, place \in Places :
           main_demo_load_polygon(valid, place)
    \/ \E fs \in FeatureLists, setup_ok \in BOOLEAN :
           main_demo_calculate(fs, setup_ok)
    \/ \E valid \in BOOLEAN, place \in Places :
           main_demo_create_marker(valid, place)
    \/ main_demo_create_layout
    \/ main_demo_complete

SpecDemo == DemoInit /\ [][DemoNext]_<< vars, outside >>

\* The helpers of main_demo in the order of the claim, ending with the last
\* message.
DemoOrder ==
    << "load_raster_layer", "load_polygon_layer",
       "calculate_area_and_centroid", "create_marker_layer",
       "create_simple_layout", "Workflow complete." >>

\* Whether a step has been made in this run.
Made(step) == \E i \in DOMAIN demo.steps : demo.steps[i] = step

\* C19: the steps of a run are made in the order raster load, polygon load,
\* area and centroid, marker, layout; the marker layer is created only with a
\* polygon layer and a non-None area and centroid, the layout only with a
\* marker layer, and "Workflow complete." is reached only when all three
\* succeeded; a run that has ended stopped right after the first of the three
\* that failed.
C19_StepsInOrderAndGuarded ==
    /\ Len(demo.steps) <= Len(DemoOrder)
    /\ demo.steps = SubSeq(DemoOrder, 1, Len(demo.steps))
    /\ Made("create_marker_layer") =>
           /\ demo.polygon_layer # None
           /\ demo.area_hectares # None
           /\ demo.centroid_point_utm # None
    /\ Made("create_simple_layout") => demo.marker_layer # None
    /\ Made("Workflow complete.") =>
           /\ demo.polygon_layer # None
           /\ demo.area_hectares # None
           /\ demo.centroid_point_utm # None
           /\ demo.marker_layer # None
           /\ demo.layout # 0
    /\ demo.pc = "done" =>
           Len(demo.steps) =
               IF demo.polygon_layer = None THEN 2
               ELSE IF demo.area_hectares = None
                       \/ demo.centroid_point_utm = None THEN 3
               ELSE IF demo.marker_layer = None THEN 4
               ELSE 6

\* C19 witness: a run went through all five steps to "Workflow complete."
\* although its raster load gave None.
C19_Witness ==
    /\ demo.pc = "done"
    /\ Made("Workflow complete.")
    /\ Len(demo.steps) = 6
    /\ demo.raster_layer = None
    /\ demo.marker_layer # None

====
